---- MODULE Spec2Model ----
(***************************************************************************)
(* The sequential windowed replay buffer of dynamics_toolbox               *)
(* (rl/buffers/sequential_buffer.py): SequentialReplayBuffer and           *)
(* SequentialOfflineReplayBuffer.                                          *)
(*                                                                         *)
(* obs_dim = act_dim = 1, so a feature vector is one integer.  A storage   *)
(* array of shape (max_size, n, 1) is a function from the slot indices     *)
(* 0..max_size-1 to sequences of length n; the python index j of a row is  *)
(* the TLA+ index j+1.                                                     *)
(***************************************************************************)
EXTENDS Integers, Sequences, FiniteSets, TLC

VARIABLES
    observations,       \* self._observations       [slot -> Seq of lookback]
    next_observations,  \* self._next_observations  [slot -> Seq of lookback]
    actions,            \* self._actions            [slot -> Seq of lookback+1]
    rewards,            \* self._rewards            [slot -> Seq of lookback+1]
    terminals,          \* self._terminals          [slot -> Seq of lookback]
    masks,              \* self._masks              [slot -> Seq of lookback]
    top,                \* self._top
    size,               \* self._size
    max_size,           \* self._max_size
    offline,            \* whether this is a SequentialOfflineReplayBuffer
    starts,             \* self._starts (offline buffer only, <<>> otherwise)
    pc,                 \* "init" while the offline constructor runs, then "ready"
    pending,            \* the paths the offline constructor has still to add
    trajs,              \* the paths parse_into_trajectories returned
    dataset,            \* the flat dataset the offline buffer was built from
    episodes,           \* history: the episodes the dataset concatenates
    nwritten,           \* history: _advance calls since the last clear_buffer
    slot_src,           \* history: per slot, the write that last filled it
    log,                \* history: the window writes of the last call
    call,               \* history: the last call of the buffer's user and its
                        \* arguments ("init" is the constructor)
    caller,             \* the mapping the last add_paths call was given, as it
                        \* was passed and as the caller holds it afterwards
    ret                 \* the value the last call returned, or the error raised

vars == <<observations, next_observations, actions, rewards, terminals, masks,
          top, size, max_size, offline, starts, pc, pending, trajs, dataset,
          episodes, nwritten, slot_src, log, call, caller, ret>>

(***************************************************************************)
(* Bounds of the model.                                                    *)
(***************************************************************************)
Lookback == 2           \* lookback given to the constructors
MaxHorizon == 3         \* the longest action array of an input episode
MaxWrites == 4          \* add_paths is not called once this many windows were written

Max(a, b) == IF a >= b THEN a ELSE b
Min(a, b) == IF a <= b THEN a ELSE b

(***************************************************************************)
(* numpy rows.                                                             *)
(***************************************************************************)
\* np.zeros(n) along the time axis
Zeros(n) == [j \in 1..n |-> 0]

\* s[a:b] for 0 <= a, 0 <= b
PySlice(s, a, b) == SubSeq(s, a + 1, Min(b, Len(s)))

\* len(s[a:b]) for 0 <= a, 0 <= b
SliceLen(s, a, b) == Max(Min(b, Len(s)) - a, 0)

\* whether numpy accepts an assignment of m rows to a slice of k rows: as
\* many rows, or one row, which is broadcast; otherwise it raises ValueError
AssignFits(k, m) == m = k \/ m = 1

\* row[a:b] = vals, for vals that fit
PyAssign(row, a, b, vals) ==
    [j \in 1..Len(row) |->
        IF j > a /\ j <= b
        THEN (IF Len(vals) = 1 THEN vals[1] ELSE vals[j - a])
        ELSE row[j]]

\* row[a:b] = v for a scalar v
PyFill(row, a, b, v) ==
    [j \in 1..Len(row) |-> IF j > a /\ j <= b THEN v ELSE row[j]]

(***************************************************************************)
(* The inputs: episodes as add_paths receives them.  An episode of horizon *)
(* H has H+1 observations and H actions, rewards and terminals, and        *)
(* optionally H masks.  The values are nonzero and tell the episode kind b *)
(* the array and the timestep apart.  Episodes of kind 1 end in a terminal *)
(* flag, those of kind 2 are cut off without one.                          *)
(***************************************************************************)
Kinds == {1, 2}
Horizons == 1..MaxHorizon

EpObservations(b, H) == [t \in 1..(H + 1) |-> 10 * b + t]
EpActions(b, H) == [t \in 1..H |-> 100 + 10 * b + t]
EpRewards(b, H) == [t \in 1..H |-> 200 + 10 * b + t]
EpTerminals(b, H) == [t \in 1..H |-> IF t = H /\ b = 1 THEN 1 ELSE 0]

\* an episode without the optional masks key
PlainEpisode(b, H) ==
    [observations |-> EpObservations(b, H), actions |-> EpActions(b, H),
     rewards |-> EpRewards(b, H), terminals |-> EpTerminals(b, H),
     has_masks |-> FALSE, masks |-> <<>>]

\* an episode with a masks array m, a 0/1 sequence of length H
MaskedEpisode(b, H, m) ==
    [observations |-> EpObservations(b, H), actions |-> EpActions(b, H),
     rewards |-> EpRewards(b, H), terminals |-> EpTerminals(b, H),
     has_masks |-> TRUE, masks |-> m]

\* the masks arrays of length H: T ones, and when T < H a zero followed by
\* H-T-1 entries that are all zero (a padded episode) or all one (malformed)
Mask(H, T, tail) ==
    [t \in 1..H |-> IF t <= T THEN 1 ELSE IF t = T + 1 THEN 0 ELSE tail]

PaddedMasks(H) == {Mask(H, T, 0) : T \in 0..H}
MaskArrays(H) == PaddedMasks(H) \cup {Mask(H, T, 1) : T \in 0..H}

PlainEpisodes == {PlainEpisode(b, H) : b \in Kinds, H \in Horizons}
MaskedEpisodes ==
    UNION {{MaskedEpisode(1, H, m) : m \in MaskArrays(H)} : H \in Horizons}
Episodes == PlainEpisodes \cup MaskedEpisodes

\* the episodes of a batch of two, of kinds 1 and 2: rectangular arrays, so
\* both of one horizon and, when they differ in length, padded to MaxHorizon
\* and masked
EpisodePairs ==
    {<<PlainEpisode(1, H), PlainEpisode(2, H)>> : H \in Horizons}
    \cup {<<MaskedEpisode(1, MaxHorizon, m1), MaskedEpisode(2, MaxHorizon, m2)>> :
             m1 \in PaddedMasks(MaxHorizon), m2 \in PaddedMasks(MaxHorizon)}

\* the keys every paths mapping has
BaseKeys == {"observations", "actions", "rewards", "terminals"}

\* the keys of a mapping made of episodes like ep
KeysOf(ep) == IF ep.has_masks THEN BaseKeys \cup {"masks"} ELSE BaseKeys

\* the paths mapping of one episode: arrays of shape (horizon, dim), so
\* len(paths['actions'].shape) is 2; the array of an absent key is <<>>
SingleMapping(ep) ==
    [ndim |-> 2, keys |-> KeysOf(ep),
     observations |-> ep.observations, next_observations |-> <<>>,
     actions |-> ep.actions, rewards |-> ep.rewards,
     terminals |-> ep.terminals, masks |-> ep.masks]

\* the paths mapping of a batch: arrays of shape (num_paths, horizon, dim)
BatchMapping(eps) ==
    [ndim |-> 3, keys |-> KeysOf(eps[1]),
     observations |-> [i \in 1..Len(eps) |-> eps[i].observations],
     next_observations |-> <<>>,
     actions |-> [i \in 1..Len(eps) |-> eps[i].actions],
     rewards |-> [i \in 1..Len(eps) |-> eps[i].rewards],
     terminals |-> [i \in 1..Len(eps) |-> eps[i].terminals],
     masks |-> IF eps[1].has_masks
               THEN [i \in 1..Len(eps) |-> eps[i].masks] ELSE <<>>]

\* the paths argument of add_paths: one episode
SinglePaths == {SingleMapping(e) : e \in Episodes}

\* the paths argument of add_paths: a batch, of one plain episode or of two
BatchedPaths ==
    {BatchMapping(<<e>>) : e \in PlainEpisodes}
    \cup {BatchMapping(eps) : eps \in EpisodePairs}

(***************************************************************************)
(* The buffer as a record, for the operators that compute a call's effect. *)
(* Its field raised tells that the call has raised an error.               *)
(***************************************************************************)
Slots(n) == 0..(n - 1)

NoSrc == [written |-> FALSE, ord |-> 0, valid |-> 0, source |-> <<>>]

\* the size clear_buffer sets, were it not reset
ClearedSizeKept(n) == n

\* line 83
ClearedSize(n) == 0

\* a cursor that clear_buffer leaves on the last slot
ClearedTopLast(n) == n - 1

\* line 82
ClearedTop(n) == 0

\* SequentialReplayBuffer.clear_buffer, on a buffer of capacity n
ClearBuffer(n) ==
    [observations |-> [s \in Slots(n) |-> Zeros(Lookback)],
     next_observations |-> [s \in Slots(n) |-> Zeros(Lookback)],
     actions |-> [s \in Slots(n) |-> Zeros(Lookback + 1)],
     rewards |-> [s \in Slots(n) |-> Zeros(Lookback + 1)],
     terminals |-> [s \in Slots(n) |-> Zeros(Lookback)],
     masks |-> [s \in Slots(n) |-> Zeros(Lookback)],
     top |-> ClearedTop(n),
     size |-> ClearedSize(n),
     max_size |-> n,
     nwritten |-> 0,
     slot_src |-> [s \in Slots(n) |-> NoSrc],
     log |-> <<>>,
     raised |-> FALSE]

\* the buffer the variables hold
Buffer ==
    [observations |-> observations, next_observations |-> next_observations,
     actions |-> actions, rewards |-> rewards, terminals |-> terminals,
     masks |-> masks, top |-> top, size |-> size, max_size |-> max_size,
     nwritten |-> nwritten, slot_src |-> slot_src, log |-> <<>>,
     raised |-> FALSE]

\* the window a slot of a buffer holds
Window(b, s) ==
    [observations |-> b.observations[s],
     next_observations |-> b.next_observations[s],
     actions |-> b.actions[s], rewards |-> b.rewards[s],
     terminals |-> b.terminals[s], masks |-> b.masks[s]]

(***************************************************************************)
(* SequentialReplayBuffer._advance                                         *)
(***************************************************************************)
\* a cursor that stops at the last slot instead of wrapping
AdvanceTopSticks(t, n) == IF t + 1 >= n THEN n - 1 ELSE t + 1

AdvanceTop(t, n) == (t + 1) % n

\* a size that is incremented without the capacity test
AdvanceSizeUnchecked(sz, n) == sz + 1

AdvanceSize(sz, n) == IF sz < n THEN sz + 1 ELSE sz

Advance(b) ==
    [b EXCEPT !.top = AdvanceTop(b.top, b.max_size),
              !.size = AdvanceSize(b.size, b.max_size),
              !.nwritten = b.nwritten + 1]

(***************************************************************************)
(* SequentialReplayBuffer.add_paths                                        *)
(***************************************************************************)
\* line 104: {k: v[np.newaxis] for k, v in paths.items()}, a new mapping
NewAxis(paths) ==
    [ndim |-> paths.ndim + 1, keys |-> paths.keys,
     observations |-> <<paths.observations>>,
     next_observations |->
         IF "next_observations" \in paths.keys
         THEN <<paths.next_observations>> ELSE <<>>,
     actions |-> <<paths.actions>>, rewards |-> <<paths.rewards>>,
     terminals |-> <<paths.terminals>>,
     masks |-> IF "masks" \in paths.keys THEN <<paths.masks>> ELSE <<>>]

\* lines 103-104: the mapping the name paths is bound to from there on
Normalise(paths) == IF paths.ndim < 3 THEN NewAxis(paths) ELSE paths

\* lines 105-106, on a mapping of rank 3: the key next_observations is set
\* to observations[:, 1:] and observations to observations[:, :-1]
SplitObservations(paths) ==
    [paths EXCEPT
        !.keys = @ \cup {"next_observations"},
        !.next_observations =
            [i \in 1..Len(paths.observations) |->
                PySlice(paths.observations[i], 1, Len(paths.observations[i]))],
        !.observations =
            [i \in 1..Len(paths.observations) |->
                PySlice(paths.observations[i], 0,
                        Len(paths.observations[i]) - 1)]]

\* a path that is always taken from the first row of the batch
PathAtFirst(paths, pidx) ==
    [observations |-> paths.observations[1],
     next_observations |-> paths.next_observations[1],
     actions |-> paths.actions[1], rewards |-> paths.rewards[1],
     terminals |-> paths.terminals[1],
     has_masks |-> "masks" \in paths.keys,
     masks |-> IF "masks" \in paths.keys THEN paths.masks[1] ELSE <<>>]

\* lines 108-111: path[k] = v[pidx] (pidx counts from 0)
PathAt(paths, pidx) ==
    [observations |-> paths.observations[pidx + 1],
     next_observations |-> paths.next_observations[pidx + 1],
     actions |-> paths.actions[pidx + 1], rewards |-> paths.rewards[pidx + 1],
     terminals |-> paths.terminals[pidx + 1],
     has_masks |-> "masks" \in paths.keys,
     masks |-> IF "masks" \in paths.keys THEN paths.masks[pidx + 1] ELSE <<>>]

\* the mapping the caller holds when add_paths(paths) returns or raises:
\* lines 105-106 assign into the caller's mapping unless line 104 has bound
\* the name to a new one
CallerHolds(paths) ==
    IF paths.ndim < 3 THEN paths ELSE SplitObservations(paths)

\* np.argwhere(path['masks'] - 1).flatten(): the python indices where the
\* mask is not 1
MaskIdxs(m) == {j \in 0..(Len(m) - 1) : m[j + 1] - 1 # 0}

\* a length that ignores the masks
PathLengthNoMasks(path) == Len(path.actions)

\* lines 112-118
PathLength(path) ==
    IF path.has_masks /\ MaskIdxs(path.masks) # {}
    THEN CHOOSE j \in MaskIdxs(path.masks) :
             \A k \in MaskIdxs(path.masks) : j <= k
    ELSE Len(path.actions)

\* a range that misses the last start offset
NumStartsShort(length) == Max(length - Lookback, 1)

\* line 119: the number of start offsets, range(0, NumStarts)
NumStarts(length) == Max(length - Lookback + 1, 1)

\* line 120
WindowEnd(strt, length) == Min(strt + Lookback, strt + length)

\* a write without the leading padding slot
WriteUnshifted(row, vals, strt, end) ==
    PyAssign(row, 0, end - strt, PySlice(vals, strt, end))

\* line 122: buff[top, 1:end - strt + 1] = path[k][strt:end]
WriteShifted(row, vals, strt, end) ==
    PyAssign(row, 1, end - strt + 1, PySlice(vals, strt, end))

\* line 122 does not raise
ShiftedFits(row, vals, strt, end) ==
    AssignFits(SliceLen(row, 1, end - strt + 1), SliceLen(vals, strt, end))

\* line 127: buff[top, :end - strt] = path[k][strt:end]
WriteAligned(row, vals, strt, end) ==
    PyAssign(row, 0, end - strt, PySlice(vals, strt, end))

\* line 127 does not raise
AlignedFits(row, vals, strt, end) ==
    AssignFits(SliceLen(row, 0, end - strt), SliceLen(vals, strt, end))

\* lines 128-131
WriteMaskHead(row, path, strt, end) ==
    IF path.has_masks
    THEN PyAssign(row, 0, end - strt, PySlice(path.masks, strt, end))
    ELSE PyFill(row, 0, end - strt, 1)

\* line 129 does not raise
MaskHeadFits(row, path, strt, end) ==
    path.has_masks =>
        AssignFits(SliceLen(row, 0, end - strt), SliceLen(path.masks, strt, end))

\* a mask whose tail is left as it was
WriteMaskTailKept(row, strt, end) == row

\* line 132: masks[top, end - strt:] = 0
WriteMaskTail(row, strt, end) == PyFill(row, end - strt, Len(row), 0)

\* history: path[k][strt:end] of the five arrays a window is cut from
SourceSlice(path, strt, end) ==
    [observations |-> PySlice(path.observations, strt, end),
     next_observations |-> PySlice(path.next_observations, strt, end),
     actions |-> PySlice(path.actions, strt, end),
     rewards |-> PySlice(path.rewards, strt, end),
     terminals |-> PySlice(path.terminals, strt, end)]

\* lines 120-133: one pass of the loop over strt.  The assignments run in
\* the order of the code: actions, rewards, observations, next_observations,
\* terminals, masks.  The first that does not fit raises ValueError and ends
\* the call with the earlier ones done and the cursor where it was.
WriteWindow(b, path, pidx, strt, length) ==
    LET end == WindowEnd(strt, length)
        t == b.top
        ok1 == ShiftedFits(b.actions[t], path.actions, strt, end)
        ok2 == ok1 /\ ShiftedFits(b.rewards[t], path.rewards, strt, end)
        ok3 == ok2 /\ AlignedFits(b.observations[t], path.observations, strt, end)
        ok4 == ok3 /\ AlignedFits(b.next_observations[t],
                                  path.next_observations, strt, end)
        ok5 == ok4 /\ AlignedFits(b.terminals[t], path.terminals, strt, end)
        ok6 == ok5 /\ MaskHeadFits(b.masks[t], path, strt, end)
        w == [b EXCEPT
                !.actions[t] =
                    IF ok1 THEN WriteShifted(@, path.actions, strt, end) ELSE @,
                !.rewards[t] =
                    IF ok2 THEN WriteShifted(@, path.rewards, strt, end) ELSE @,
                !.observations[t] =
                    IF ok3 THEN WriteAligned(@, path.observations, strt, end)
                    ELSE @,
                !.next_observations[t] =
                    IF ok4 THEN WriteAligned(@, path.next_observations, strt, end)
                    ELSE @,
                !.terminals[t] =
                    IF ok5 THEN WriteAligned(@, path.terminals, strt, end) ELSE @,
                !.masks[t] =
                    IF ok6 THEN WriteMaskTail(WriteMaskHead(@, path, strt, end),
                                              strt, end)
                    ELSE @,
                !.raised = ~ok6]
        a == Advance(w)
        entry == [pidx |-> pidx, strt |-> strt, length |-> length,
                  valid |-> end - strt, slot |-> t, ord |-> a.nwritten,
                  window |-> Window(w, t)]
    IN  IF w.raised THEN w
        ELSE [a EXCEPT !.slot_src[t] =
                           [written |-> TRUE, ord |-> a.nwritten,
                            valid |-> end - strt,
                            source |-> SourceSlice(path, strt, end)],
                       !.log = Append(@, entry)]

\* line 119: the loop over strt, from strt on
RECURSIVE AddWindows(_, _, _, _, _)
AddWindows(b, path, pidx, strt, length) ==
    IF b.raised \/ strt >= NumStarts(length)
    THEN b
    ELSE AddWindows(WriteWindow(b, path, pidx, strt, length),
                    path, pidx, strt + 1, length)

\* lines 107-133: the loop over pidx, from pidx on (pidx counts from 0)
RECURSIVE AddPathsFrom(_, _, _)
AddPathsFrom(b, paths, pidx) ==
    IF b.raised \/ pidx >= Len(paths.actions)
    THEN b
    ELSE LET path == PathAt(paths, pidx)
         IN  AddPathsFrom(AddWindows(b, path, pidx, 0, PathLength(path)),
                          paths, pidx + 1)

\* add_paths(paths) on buffer b
AddPaths(b, paths) ==
    AddPathsFrom(b, SplitObservations(Normalise(paths)), 0)

\* buffer b after the add_paths calls of calls, from the i-th on
RECURSIVE Replay(_, _, _)
Replay(b, calls, i) ==
    IF i > Len(calls) THEN b
    ELSE Replay(AddPaths(b, calls[i]), calls, i + 1)

\* the number of windows add_paths writes for the paths of a normalised
\* mapping, from the i-th on
RECURSIVE CountWindowsFrom(_, _)
CountWindowsFrom(paths, i) ==
    IF i > Len(paths.actions) THEN 0
    ELSE NumStarts(PathLength(PathAt(paths, i - 1)))
             + CountWindowsFrom(paths, i + 1)

\* the number of windows add_paths(paths) writes
CountWindows(paths) ==
    CountWindowsFrom(SplitObservations(Normalise(paths)), 1)

\* history: the episodes of a mapping, one record each
EpisodesOf(paths) ==
    LET p == Normalise(paths)
    IN  [i \in 1..Len(p.actions) |->
            [observations |-> p.observations[i], actions |-> p.actions[i],
             rewards |-> p.rewards[i], terminals |-> p.terminals[i],
             has_masks |-> "masks" \in p.keys,
             masks |-> IF "masks" \in p.keys THEN p.masks[i] ELSE <<>>]]

(***************************************************************************)
(* Sampling                                                                *)
(***************************************************************************)
\* the values of num_samples
SampleSizes == {1, 2}

\* np.random.randint(0, high, n): the arrays it can return; none when
\* high <= 0, where it raises ValueError
RandInt(high, n) == [1..n -> 0..(high - 1)]

\* a draw that returns index 0 when the range is empty
RandIntDrawsClamped(high, n) ==
    {[raised |-> FALSE, indices |-> ix] : ix \in RandInt(Max(high, 1), n)}

\* the outcomes of np.random.randint(0, high, n) for n >= 1: ValueError
\* ("low >= high") when high <= 0, else one of the index arrays
RandIntDraws(high, n) ==
    IF high <= 0
    THEN {[raised |-> TRUE, indices |-> <<>>]}
    ELSE {[raised |-> FALSE, indices |-> ix] : ix \in RandInt(high, n)}

\* lines 150-157
GatherBatch(b, indices) ==
    [i \in 1..Len(indices) |-> Window(b, indices[i])]

\* line 170: self._observations[indices][:, 0]
GatherStarts(b, indices) ==
    [i \in 1..Len(indices) |-> b.observations[indices[i]][1]]

(***************************************************************************)
(* State changes                                                           *)
(***************************************************************************)
Install(b) ==
    /\ observations' = b.observations
    /\ next_observations' = b.next_observations
    /\ actions' = b.actions
    /\ rewards' = b.rewards
    /\ terminals' = b.terminals
    /\ masks' = b.masks
    /\ top' = b.top
    /\ size' = b.size
    /\ max_size' = b.max_size
    /\ nwritten' = b.nwritten
    /\ slot_src' = b.slot_src
    /\ log' = b.log

BufferUnchanged ==
    /\ UNCHANGED <<observations, next_observations, actions, rewards,
                   terminals, masks, top, size, max_size, nwritten, slot_src>>
    /\ log' = <<>>

NoCall == [op |-> "init", paths |-> <<>>, n |-> 0]
NoPaths == [passed |-> <<>>, holds |-> <<>>]
NoRet == [kind |-> "none", indices |-> <<>>, val |-> <<>>]

\* the variables hold buffer b (for initial states)
Holds(b) ==
    /\ observations = b.observations
    /\ next_observations = b.next_observations
    /\ actions = b.actions
    /\ rewards = b.rewards
    /\ terminals = b.terminals
    /\ masks = b.masks
    /\ top = b.top
    /\ size = b.size
    /\ max_size = b.max_size
    /\ nwritten = b.nwritten
    /\ slot_src = b.slot_src
    /\ log = b.log

Frame == UNCHANGED <<offline, starts, pc, pending, trajs, dataset, episodes>>

\* the values of max_buffer_size given to the online constructor
BufferSizes == {1, 2}

\* SequentialReplayBuffer.__init__(obs_dim=1, act_dim=1, max_buffer_size, Lookback)
Init ==
    /\ \E n \in BufferSizes : Holds(ClearBuffer(n))
    /\ offline = FALSE
    /\ episodes = <<>>
    /\ starts = <<>>
    /\ pc = "ready"
    /\ pending = <<>>
    /\ trajs = <<>>
    /\ dataset = <<>>
    /\ call = NoCall
    /\ caller = NoPaths
    /\ ret = NoRet

\* clear_buffer()
clear_buffer ==
    /\ pc = "ready"
    /\ Install(ClearBuffer(max_size))
    /\ call' = [op |-> "clear_buffer", paths |-> <<>>, n |-> 0]
    /\ caller' = NoPaths
    /\ ret' = NoRet
    /\ Frame

\* line 107: len(paths['actions']) of the normalised mapping
NumPaths(paths) == IF paths.ndim < 3 THEN 1 ELSE Len(paths.actions)

\* what add_paths returns: None, or the ValueError of an assignment
AddPathsRet(b) ==
    IF b.raised
    THEN [kind |-> "ValueError", indices |-> <<>>, val |-> <<>>]
    ELSE NoRet

\* add_paths(paths).  The model adds no paths that would take the windows
\* written since the last clear beyond MaxWrites (every path writes at least
\* one window, so the first guard follows from the second).
add_paths(paths) ==
    /\ pc = "ready"
    /\ nwritten + NumPaths(paths) <= MaxWrites
    /\ nwritten + CountWindows(paths) <= MaxWrites
    /\ \E b \in {AddPaths(Buffer, paths)} : Install(b) /\ ret' = AddPathsRet(b)
    /\ call' = [op |-> "add_paths", paths |-> EpisodesOf(paths), n |-> 0]
    /\ caller' = [passed |-> paths, holds |-> CallerHolds(paths)]
    /\ Frame

\* a sample_batch that moves the cursor as a write does
sample_batch_advances(n) ==
    /\ pc = "ready"
    /\ call' = [op |-> "sample_batch", paths |-> <<>>, n |-> n]
    /\ caller' = NoPaths
    /\ \E d \in RandIntDraws(size, n) :
           ret' = IF d.raised
                  THEN [kind |-> "ValueError", indices |-> <<>>, val |-> <<>>]
                  ELSE [kind |-> "batch", indices |-> d.indices,
                        val |-> GatherBatch(Buffer, d.indices)]
    /\ \E b \in {Advance(Buffer)} : Install(b)
    /\ Frame

\* sample_batch(num_samples)
sample_batch(n) ==
    /\ pc = "ready"
    /\ call' = [op |-> "sample_batch", paths |-> <<>>, n |-> n]
    /\ caller' = NoPaths
    /\ \E d \in RandIntDraws(size, n) :
           ret' = IF d.raised
                  THEN [kind |-> "ValueError", indices |-> <<>>, val |-> <<>>]
                  ELSE [kind |-> "batch", indices |-> d.indices,
                        val |-> GatherBatch(Buffer, d.indices)]
    /\ BufferUnchanged
    /\ Frame

\* SequentialReplayBuffer.sample_starts(num_samples)
sample_starts(n) ==
    /\ pc = "ready"
    /\ ~offline
    /\ call' = [op |-> "sample_starts", paths |-> <<>>, n |-> n]
    /\ caller' = NoPaths
    /\ \E d \in RandIntDraws(size, n) :
           ret' = IF d.raised
                  THEN [kind |-> "ValueError", indices |-> <<>>, val |-> <<>>]
                  ELSE [kind |-> "starts", indices |-> d.indices,
                        val |-> GatherStarts(Buffer, d.indices)]
    /\ BufferUnchanged
    /\ Frame

\* an add_step that takes the slot at the cursor and returns None
add_step_advances ==
    /\ pc = "ready"
    /\ Install(Advance(Buffer))
    /\ call' = [op |-> "add_step", paths |-> <<>>, n |-> 0]
    /\ caller' = NoPaths
    /\ ret' = NoRet
    /\ Frame

\* add_step(obs, nxt, act, rew, terminal)
add_step ==
    /\ pc = "ready"
    /\ call' = [op |-> "add_step", paths |-> <<>>, n |-> 0]
    /\ caller' = NoPaths
    /\ ret' = [kind |-> "NotImplementedError", indices |-> <<>>, val |-> <<>>]
    /\ BufferUnchanged
    /\ Frame

(***************************************************************************)
(* SequentialOfflineReplayBuffer                                           *)
(***************************************************************************)
\* the transitions of one episode, as rows of a flat dataset
FlatEpisode(ep) ==
    [observations |-> PySlice(ep.observations, 0, Len(ep.observations) - 1),
     next_observations |-> PySlice(ep.observations, 1, Len(ep.observations)),
     actions |-> ep.actions, rewards |-> ep.rewards,
     terminals |-> ep.terminals]

\* np.concatenate of two flat datasets
FlatConcat(d, e) ==
    [observations |-> d.observations \o e.observations,
     next_observations |-> d.next_observations \o e.next_observations,
     actions |-> d.actions \o e.actions, rewards |-> d.rewards \o e.rewards,
     terminals |-> d.terminals \o e.terminals]

\* the flat dataset that concatenates the episodes eps, from the i-th on
RECURSIVE FlatDataset(_, _)
FlatDataset(eps, i) ==
    IF i = Len(eps) THEN FlatEpisode(eps[i])
    ELSE FlatConcat(FlatEpisode(eps[i]), FlatDataset(eps, i + 1))

\* the numbers of episodes in an offline dataset
DatasetSizes == {1, 2}

\* the episode lists a dataset is made of
EpisodeLists == UNION {[1..n -> PlainEpisodes] : n \in DatasetSizes}

\* rows a+1..b of a flat dataset
FlatRows(d, a, b) ==
    [observations |-> PySlice(d.observations, a, b),
     next_observations |-> PySlice(d.next_observations, a, b),
     actions |-> PySlice(d.actions, a, b), rewards |-> PySlice(d.rewards, a, b),
     terminals |-> PySlice(d.terminals, a, b)]

\* row t (counting from 1) is the last of its episode: the end of the data, a
\* terminal flag, or a next_observation that the next row does not start from
EpisodeEnds(d, t) ==
    \/ t = Len(d.actions)
    \/ d.terminals[t] # 0
    \/ d.next_observations[t] # d.observations[t + 1]

\* sarsa_data_util.parse_into_trajectories(data): the episodes of the rows
\* after row a, in order
RECURSIVE ParseFrom(_, _)
ParseFrom(d, a) ==
    IF a >= Len(d.actions) THEN <<>>
    ELSE LET e == CHOOSE t \in (a + 1)..Len(d.actions) :
                      /\ EpisodeEnds(d, t)
                      /\ \A u \in (a + 1)..(t - 1) : ~EpisodeEnds(d, u)
         IN  <<FlatRows(d, a, e)>> \o ParseFrom(d, e)

parse_into_trajectories(d) == ParseFrom(d, 0)

\* starts taken from the wrong array
OfflineStartsNext(d) == d.next_observations

\* line 217: self._starts = data['observations']
OfflineStarts(d) == d.observations

\* lines 222-225: path['observations'] with path['next_observations'][[0]]
\* appended
ExtendObservations(path) ==
    path.observations \o PySlice(path.next_observations, 0, 1)

\* the mapping line 226 hands to add_paths: one episode, with the key
\* next_observations and without the key masks
OfflinePath(path) ==
    [ndim |-> 2, keys |-> BaseKeys \cup {"next_observations"},
     observations |-> ExtendObservations(path),
     next_observations |-> path.next_observations,
     actions |-> path.actions, rewards |-> path.rewards,
     terminals |-> path.terminals, masks |-> <<>>]

\* a capacity one short of the number of transitions
OfflineCapacityShort(d) == Max(Len(d.actions) - 1, 1)

\* line 214: max_buffer_size=len(data['actions'])
OfflineCapacity(d) == Len(d.actions)

\* SequentialOfflineReplayBuffer.__init__, lines 211-220: the state when the
\* loop over the paths starts
InitOffline ==
    \E eps \in EpisodeLists :
        LET d == FlatDataset(eps, 1)
        IN  /\ Holds(ClearBuffer(OfflineCapacity(d)))
            /\ offline = TRUE
            /\ episodes = eps
            /\ dataset = d
            /\ starts = OfflineStarts(d)
            /\ trajs = parse_into_trajectories(d)
            /\ pending = parse_into_trajectories(d)
            /\ pc = "init"
            /\ call = NoCall
            /\ caller = NoPaths
            /\ ret = NoRet

\* SequentialOfflineReplayBuffer.__init__, lines 221-226: one pass of the loop
offline_add_path ==
    /\ pc = "init"
    /\ pending # <<>>
    /\ \E b \in {AddPaths(Buffer, OfflinePath(Head(pending)))} :
           Install(b) /\ ret' = AddPathsRet(b)
    /\ pending' = Tail(pending)
    /\ pc' = IF Tail(pending) = <<>> THEN "ready" ELSE "init"
    /\ call' = [op |-> "init",
                paths |-> EpisodesOf(OfflinePath(Head(pending))), n |-> 0]
    /\ caller' = [passed |-> OfflinePath(Head(pending)),
                  holds |-> CallerHolds(OfflinePath(Head(pending)))]
    /\ UNCHANGED <<offline, starts, trajs, dataset, episodes>>

\* line 237: self._starts[indices]
GatherOfflineStarts(st, indices) ==
    [i \in 1..Len(indices) |-> st[indices[i] + 1]]

\* SequentialOfflineReplayBuffer.sample_starts(num_samples)
offline_sample_starts(n) ==
    /\ pc = "ready"
    /\ offline
    /\ call' = [op |-> "sample_starts", paths |-> <<>>, n |-> n]
    /\ caller' = NoPaths
    /\ \E d \in RandIntDraws(Len(starts), n) :
           ret' = IF d.raised
                  THEN [kind |-> "ValueError", indices |-> <<>>, val |-> <<>>]
                  ELSE [kind |-> "starts", indices |-> d.indices,
                        val |-> GatherOfflineStarts(starts, d.indices)]
    /\ BufferUnchanged
    /\ Frame

Next ==
    \/ clear_buffer
    \/ \E paths \in SinglePaths : add_paths(paths)
    \/ \E paths \in BatchedPaths : add_paths(paths)
    \/ \E n \in SampleSizes : sample_batch(n)
    \/ \E n \in SampleSizes : sample_starts(n)
    \/ add_step

Spec == Init /\ [][Next]_vars
\* the mappings given to the add_paths that the offline buffer inherits,
\* once it is built: an episode of one step and one of MaxHorizon steps
OfflineAddedPaths ==
    {SingleMapping(PlainEpisode(2, 1)),
     SingleMapping(PlainEpisode(1, MaxHorizon))}

\* the offline buffer is built from its dataset; then it is a
\* SequentialReplayBuffer with its own sample_starts
NextOffline ==
    \/ offline_add_path
    \/ clear_buffer
    \/ \E paths \in OfflineAddedPaths : add_paths(paths)
    \/ \E n \in SampleSizes : sample_batch(n)
    \/ \E n \in SampleSizes : offline_sample_starts(n)
    \/ add_step

SpecOffline == InitOffline /\ [][NextOffline]_vars

\* add_paths called once more with the mapping object the last add_paths
\* call was given, as the caller holds it now
add_paths_again ==
    /\ call.op = "add_paths"
    /\ ~offline
    /\ add_paths(caller.holds)

\* the online buffer whose caller may pass a mapping twice
NextReuse ==
    \/ Next
    \/ add_paths_again

SpecReuse == Init /\ [][NextReuse]_vars

\* a buffer of either class
InitEither == Init \/ InitOffline

NextEither ==
    \/ ~offline /\ Next
    \/ offline /\ NextOffline

SpecEither == InitEither /\ [][NextEither]_vars
(***************************************************************************)
(* What the properties speak of, stated from the episodes handed in.       *)
(***************************************************************************)
\* the true length of an episode: the python index of the first zero of its
\* mask, or the length of its action array
TrueLength(ep) ==
    IF ep.has_masks /\ \E j \in 1..Len(ep.masks) : ep.masks[j] = 0
    THEN (CHOOSE j \in 1..Len(ep.masks) :
              /\ ep.masks[j] = 0
              /\ \A k \in 1..(j - 1) : ep.masks[k] # 0) - 1
    ELSE Len(ep.actions)

\* the window of Lookback whole timesteps of episode ep that starts at offset s
FullWindow(ep, s) ==
    [observations |-> SubSeq(ep.observations, s + 1, s + Lookback),
     next_observations |-> SubSeq(ep.observations, s + 2, s + Lookback + 1),
     actions |-> <<0>> \o SubSeq(ep.actions, s + 1, s + Lookback),
     rewards |-> <<0>> \o SubSeq(ep.rewards, s + 1, s + Lookback),
     terminals |-> SubSeq(ep.terminals, s + 1, s + Lookback),
     masks |-> [j \in 1..Lookback |-> 1]]

\* the writes of the last call that belong to its episode number pidx
LogOf(pidx) == SelectSeq(log, LAMBDA e : e.pidx = pidx)

\* the last call was add_paths
AddPathsCalled == call.op = "add_paths"

\* C1: an episode of true length T >= Lookback makes add_paths write exactly
\* T - Lookback + 1 windows, one per start offset 0..T-Lookback in that order,
\* each the Lookback timesteps from its offset with an all-ones mask, and
\* each followed by exactly one _advance.
C1_Coverage ==
    AddPathsCalled =>
        \A i \in 1..Len(call.paths) :
            LET ep == call.paths[i]
                T == TrueLength(ep)
                es == LogOf(i - 1)
            IN  T >= Lookback =>
                    /\ Len(es) = T - Lookback + 1
                    /\ \A j \in 1..Len(es) :
                           /\ es[j].strt = j - 1
                           /\ es[j].window = FullWindow(ep, j - 1)
                           /\ j > 1 => es[j].ord = es[j - 1].ord + 1
                    /\ \A j \in 1..Len(log) :
                           /\ j > 1 => log[j].ord = log[j - 1].ord + 1
                           /\ j = Len(log) => log[j].ord = nwritten

\* an episode longer than Lookback has been added and the ring has wrapped
C1_Witness ==
    /\ AddPathsCalled
    /\ nwritten > max_size
    /\ \E i \in 1..Len(call.paths) :
           /\ TrueLength(call.paths[i]) > Lookback
           /\ Len(LogOf(i - 1)) >= 2
\* slot s holds, where the write that filled it put them, the valid
\* timesteps of the episode slice it was written from, under a mask of that
\* many ones
HoldsItsWindow(s) ==
    LET src == slot_src[s]
        v == src.valid
    IN  /\ src.written
        /\ SubSeq(observations[s], 1, v) = src.source.observations
        /\ SubSeq(next_observations[s], 1, v) = src.source.next_observations
        /\ SubSeq(terminals[s], 1, v) = src.source.terminals
        /\ SubSeq(actions[s], 2, v + 1) = src.source.actions
        /\ SubSeq(rewards[s], 2, v + 1) = src.source.rewards
        /\ masks[s] = [j \in 1..Lookback |-> IF j <= v THEN 1 ELSE 0]

\* C2: once capacity + k windows (0 < k <= capacity) have been written into
\* an empty buffer, size is the capacity, top is k mod capacity, slots
\* 0..k-1 hold the k latest windows in write order, slots k..capacity-1 hold
\* the windows written k+1-th to capacity-th, and the k oldest are in no slot.
C2_RingOverwrite ==
    \A k \in 1..max_size :
        nwritten = max_size + k =>
            /\ size = max_size
            /\ top = k % max_size
            /\ \A s \in 0..(k - 1) :
                   slot_src[s].ord = max_size + s + 1 /\ HoldsItsWindow(s)
            /\ \A s \in k..(max_size - 1) :
                   slot_src[s].ord = s + 1 /\ HoldsItsWindow(s)
            /\ \A s \in Slots(max_size) : slot_src[s].ord > k

\* a buffer of capacity 2 has been written three times: one slot overwritten
C2_Witness ==
    /\ max_size = 2
    /\ nwritten = 3
    /\ slot_src[0].ord = 3
    /\ slot_src[1].ord = 2
\* the set of windows a buffer stores
WindowSet(b) == {Window(b, s) : s \in 0..(b.size - 1)}

\* the offline constructor has just returned
Constructed == offline /\ pc = "ready" /\ call.op = "init"

\* the buffer that add_paths fills online, from empty and with the offline
\* buffer's capacity, with the episodes the dataset concatenates
OnlineIngested ==
    Replay(ClearBuffer(max_size),
           [i \in 1..Len(episodes) |-> SingleMapping(episodes[i])], 1)

\* C3: an offline buffer built from the flat dataset that concatenates a set
\* of episodes stores the same set of windows, in all six arrays, as
\* add_paths stores when given those episodes, each with its T+1
\* observations that end in its last next-observation.
C3_OfflineOnlineEquivalence ==
    Constructed => WindowSet(Buffer) = WindowSet(OnlineIngested)
\* C4: an episode of true length T < Lookback (T = 0 included) makes
\* add_paths write exactly one window, at start offset 0, whose mask is T
\* ones followed by Lookback - T zeros, whatever the slot held before.
C4_ShortEpisodeMask ==
    AddPathsCalled =>
        \A i \in 1..Len(call.paths) :
            LET T == TrueLength(call.paths[i])
                es == LogOf(i - 1)
            IN  T < Lookback =>
                    /\ Len(es) = 1
                    /\ es[1].strt = 0
                    /\ es[1].window.masks =
                           [j \in 1..Lookback |-> IF j <= T THEN 1 ELSE 0]

\* an episode of true length 0 has been written over a slot that held a
\* window with an all-ones mask
C4_Witness ==
    /\ AddPathsCalled
    /\ Len(call.paths) = 1
    /\ TrueLength(call.paths[1]) = 0
    /\ nwritten > max_size
    /\ \E s \in Slots(max_size) :
           /\ slot_src[s].ord = nwritten
           /\ masks[s] = [j \in 1..Lookback |-> 0]
           /\ observations[s] # [j \in 1..Lookback |-> 0]

\* C5: every slot that holds a window of T < Lookback valid timesteps has
\* zero observations, next_observations and terminals at positions
\* T..Lookback-1 and zero actions and rewards at positions T+1..Lookback.
C5_ZeroPadding ==
    \A s \in Slots(max_size) :
        (slot_src[s].written /\ slot_src[s].valid < Lookback) =>
            /\ \A j \in (slot_src[s].valid + 1)..Lookback :
                   /\ observations[s][j] = 0
                   /\ next_observations[s][j] = 0
                   /\ terminals[s][j] = 0
            /\ \A j \in (slot_src[s].valid + 2)..(Lookback + 1) :
                   /\ actions[s][j] = 0
                   /\ rewards[s][j] = 0
\* C6: in every slot actions[0] and rewards[0] are zero, and the window
\* written from an episode at start offset s with end e = min(s + Lookback,
\* s + length) has the episode's actions[s..e-1] and rewards[s..e-1] at its
\* positions 1..e-s, index for index.
C6_ActionRewardPadding ==
    /\ \A s \in Slots(max_size) : actions[s][1] = 0 /\ rewards[s][1] = 0
    /\ \A s \in Slots(max_size) :
           slot_src[s].written =>
               \A j \in 1..slot_src[s].valid :
                   /\ actions[s][j + 1] = slot_src[s].source.actions[j]
                   /\ rewards[s][j + 1] = slot_src[s].source.rewards[j]
    /\ AddPathsCalled =>
           \A n \in 1..Len(log) :
               LET e == log[n]
                   ep == call.paths[e.pidx + 1]
                   end == Min(e.strt + Lookback, e.strt + TrueLength(ep))
               IN  /\ e.window.actions[1] = 0
                   /\ e.window.rewards[1] = 0
                   /\ \A j \in 1..(end - e.strt) :
                          /\ e.window.actions[j + 1] = ep.actions[e.strt + j]
                          /\ e.window.rewards[j + 1] = ep.rewards[e.strt + j]
                   /\ slot_src[e.slot].ord = e.ord =>
                          /\ slot_src[e.slot].valid = end - e.strt
                          /\ slot_src[e.slot].source.actions =
                                 SubSeq(ep.actions, e.strt + 1, end)
                          /\ slot_src[e.slot].source.rewards =
                                 SubSeq(ep.rewards, e.strt + 1, end)

\* a window at start offset 1 has been written: its actions[1] is the
\* episode's actions[1]
C6_Witness ==
    /\ AddPathsCalled
    /\ \E n \in 1..Len(log) :
           /\ log[n].strt = 1
           /\ slot_src[log[n].slot].ord = log[n].ord
           /\ actions[log[n].slot][1] = 0
           /\ actions[log[n].slot][2] =
                  call.paths[log[n].pidx + 1].actions[2]

\* C7: with size > 0, sample_batch(n) and the online sample_starts(n)
\* return exactly n entries, each gathered at an index i with 0 <= i < size,
\* and every slot i < size has been written by add_paths since the last
\* clear.
C7_SamplingBounds ==
    /\ \A s \in Slots(max_size) : s < size => slot_src[s].written
    /\ (call.op \in {"sample_batch", "sample_starts"} /\ size > 0) =>
           /\ ret.kind = (IF call.op = "sample_batch" THEN "batch" ELSE "starts")
           /\ Len(ret.val) = call.n
           /\ Len(ret.indices) = call.n
           /\ \A i \in 1..call.n :
                  /\ ret.indices[i] \in 0..(size - 1)
                  /\ slot_src[ret.indices[i]].written
                  /\ ret.val[i] =
                         (IF call.op = "sample_batch"
                          THEN Window(Buffer, ret.indices[i])
                          ELSE observations[ret.indices[i]][1])

\* sample_batch(2) has returned two different windows of a full buffer
C7_Witness ==
    /\ call.op = "sample_batch"
    /\ call.n = 2
    /\ size = 2
    /\ ret.kind = "batch"
    /\ ret.indices[1] # ret.indices[2]
    /\ ret.val[1] # ret.val[2]
\* a 0/1 row that is ones and then zeros
OnesThenZeros(m) ==
    /\ \A j \in 1..Len(m) : m[j] \in {0, 1}
    /\ \A j \in 1..Len(m) : \A k \in (j + 1)..Len(m) : m[j] = 0 => m[k] = 0

\* C8: in every slot the stored mask is a prefix of ones followed by a
\* suffix of zeros, for any 0/1 input masks, malformed ones included; and
\* the mask of a written window has a zero only when the episode it was
\* written from has a true length below Lookback.
C8_MaskShape ==
    /\ \A s \in Slots(max_size) :
           /\ OnesThenZeros(masks[s])
           /\ (slot_src[s].written /\ \E j \in 1..Lookback : masks[s][j] = 0)
                  => slot_src[s].valid < Lookback
    /\ AddPathsCalled =>
           \A n \in 1..Len(log) :
               /\ OnesThenZeros(log[n].window.masks)
               /\ (\E j \in 1..Lookback : log[n].window.masks[j] = 0)
                      => TrueLength(call.paths[log[n].pidx + 1]) < Lookback
               /\ slot_src[log[n].slot].ord = log[n].ord =>
                      /\ masks[log[n].slot] = log[n].window.masks
                      /\ slot_src[log[n].slot].valid =
                             Min(Lookback, TrueLength(call.paths[log[n].pidx + 1]))

\* an episode whose mask has a one after a zero has been written
C8_Witness ==
    /\ AddPathsCalled
    /\ \E n \in 1..Len(log) :
           LET ep == call.paths[log[n].pidx + 1]
           IN  /\ ep.has_masks
               /\ ~OnesThenZeros(ep.masks)
               /\ TrueLength(ep) = 1
               /\ slot_src[log[n].slot].ord = log[n].ord
               /\ masks[log[n].slot] =
                      [j \in 1..Lookback |-> IF j <= 1 THEN 1 ELSE 0]
\* the first observations of the episodes the dataset concatenates
EpisodeStarts == {episodes[i].observations[1] : i \in 1..Len(episodes)}

\* the offline sample_starts has returned
OfflineStartsSampled == offline /\ call.op = "sample_starts" /\ ret.kind = "starts"

\* C9 as stated: starts holds exactly the true episode-start observations,
\* so every value the offline sample_starts returns is the first
\* observation of some reconstructed episode.
C9_StartsAreEpisodeStarts ==
    (offline /\ pc = "ready") =>
        /\ starts = [i \in 1..Len(episodes) |-> episodes[i].observations[1]]
        /\ OfflineStartsSampled =>
               \A i \in 1..Len(ret.val) : ret.val[i] \in EpisodeStarts

\* C9 amended: starts is the dataset's whole observations array, one entry
\* per transition and never changed after construction, and every value the
\* offline sample_starts(n) returns is the observation of some transition of
\* the dataset, which may lie in the middle of an episode.
C9_StartsAreDatasetObservations ==
    offline =>
        /\ starts = dataset.observations
        /\ Len(starts) = max_size
        /\ OfflineStartsSampled =>
               /\ Len(ret.val) = call.n
               /\ \A i \in 1..Len(ret.val) :
                      /\ ret.indices[i] \in 0..(Len(dataset.observations) - 1)
                      /\ ret.val[i] = dataset.observations[ret.indices[i] + 1]

\* the offline sample_starts has returned an observation that starts no
\* episode
C9_Witness ==
    /\ OfflineStartsSampled
    /\ \E i \in 1..Len(ret.val) : ret.val[i] \notin EpisodeStarts

\* the cursor and the size as the count of writes determines them
CursorAndSize ==
    /\ max_size >= 1
    /\ size = Min(nwritten, max_size)
    /\ top = nwritten % max_size
    /\ 0 <= size /\ size <= max_size
    /\ 0 <= top /\ top < max_size
    /\ size < max_size => top = size

\* C10: with W the number of windows written since construction or the
\* last clear_buffer, size = min(W, capacity) and top = W mod capacity, so
\* 0 <= size <= capacity, 0 <= top < capacity, and top = size while
\* size < capacity; and size never decreases except by clear_buffer.
C10_CursorAndSize ==
    /\ []CursorAndSize
    /\ [][call'.op # "clear_buffer" => size' >= size]_vars

\* a buffer of capacity 2 has been written four times
C10_Witness ==
    /\ max_size = 2
    /\ nwritten = 4
    /\ size = 2
    /\ top = 0
    /\ slot_src[0].ord = 3

\* the six storage arrays, the cursor and the size
Storage ==
    <<observations, next_observations, actions, rewards, terminals, masks,
      top, size>>

\* C11: whenever size is 0 (a fresh buffer, or one just cleared),
\* sample_batch(n) and the online sample_starts(n) with n >= 1 raise an
\* error, return no data, and leave top, size and the six storage arrays as
\* they were.
C11_EmptySampling ==
    [][(/\ size = 0
        /\ call'.n >= 1
        /\ \/ call'.op = "sample_batch"
           \/ call'.op = "sample_starts" /\ ~offline)
       => /\ ret'.kind = "ValueError"
          /\ ret'.val = <<>>
          /\ UNCHANGED Storage]_vars

\* sample_starts(2) has raised on a buffer that holds nothing
C11_Witness ==
    /\ size = 0
    /\ ~offline
    /\ call.op = "sample_starts"
    /\ call.n = 2
    /\ ret.kind = "ValueError"
    /\ \A s \in Slots(max_size) : ~slot_src[s].written

\* C12: in every state of a constructed buffer, online or offline, add_step
\* can be called, and every call raises NotImplementedError and leaves top,
\* size and the six storage arrays as they were.
C12_AddStepRejected ==
    /\ [](pc = "ready" => ENABLED add_step)
    /\ [][call'.op = "add_step"
             => /\ ret'.kind = "NotImplementedError"
                /\ ret'.val = <<>>
                /\ UNCHANGED Storage]_vars

\* add_step has raised on an offline buffer that holds windows
C12_Witness ==
    /\ offline
    /\ size > 0
    /\ call.op = "add_step"
    /\ ret.kind = "NotImplementedError"

\* top, size and the six storage arrays of a buffer record
StorageOf(b) ==
    [observations |-> b.observations,
     next_observations |-> b.next_observations,
     actions |-> b.actions, rewards |-> b.rewards,
     terminals |-> b.terminals, masks |-> b.masks,
     top |-> b.top, size |-> b.size]

\* a newly constructed buffer of capacity n as the claim describes it: top
\* and size 0 and every entry of the six arrays zero
FreshBuffer(n) ==
    [observations |-> [s \in 0..(n - 1) |-> [j \in 1..Lookback |-> 0]],
     next_observations |-> [s \in 0..(n - 1) |-> [j \in 1..Lookback |-> 0]],
     actions |-> [s \in 0..(n - 1) |-> [j \in 1..(Lookback + 1) |-> 0]],
     rewards |-> [s \in 0..(n - 1) |-> [j \in 1..(Lookback + 1) |-> 0]],
     terminals |-> [s \in 0..(n - 1) |-> [j \in 1..Lookback |-> 0]],
     masks |-> [s \in 0..(n - 1) |-> [j \in 1..Lookback |-> 0]],
     top |-> 0, size |-> 0, max_size |-> n,
     nwritten |-> 0, slot_src |-> [s \in 0..(n - 1) |-> NoSrc], log |-> <<>>,
     raised |-> FALSE]

\* the add_paths calls of calls give top, size and the arrays on the buffer
\* the variables hold that they give on a new buffer of its capacity
ReplaysAsOnFresh(calls) ==
    StorageOf(Replay(Buffer, calls, 1)) =
        StorageOf(Replay(FreshBuffer(max_size), calls, 1))

\* the state right after clear_buffer is that of a new buffer, clearing it
\* again gives the same state, and it answers add_paths calls as a new
\* buffer does
ClearedIsFresh ==
    /\ StorageOf(Buffer) = StorageOf(FreshBuffer(max_size))
    /\ StorageOf(ClearBuffer(max_size)) = StorageOf(Buffer)
    /\ \A c \in SinglePaths : ReplaysAsOnFresh(<<c>>)
    /\ \A c \in BatchedPaths : ReplaysAsOnFresh(<<c>>)
    /\ \A c \in SinglePaths : \A d \in SinglePaths : ReplaysAsOnFresh(<<c, d>>)
    /\ \A c \in SinglePaths : \A d \in BatchedPaths : ReplaysAsOnFresh(<<c, d>>)
    /\ \A c \in BatchedPaths : \A d \in SinglePaths : ReplaysAsOnFresh(<<c, d>>)
    /\ \A c \in BatchedPaths : \A d \in BatchedPaths : ReplaysAsOnFresh(<<c, d>>)

\* C13: clear_buffer, from any state, leaves the buffer in the state of a
\* newly constructed buffer of the same capacity (top 0, size 0, the six
\* arrays all zero), so that the add_paths calls that follow produce the
\* state they produce on a new buffer; and a second clear_buffer changes
\* nothing.
C13_ClearIsFresh ==
    /\ [](call.op = "clear_buffer" => ClearedIsFresh)
    /\ [][(call.op = "clear_buffer" /\ call'.op = "clear_buffer")
             => UNCHANGED Storage]_vars

\* a buffer of capacity 2 has just been cleared
C13_Witness ==
    /\ call.op = "clear_buffer"
    /\ max_size = 2
    /\ size = 0
    /\ top = 0
    /\ \A s \in Slots(max_size) : observations[s] = Zeros(Lookback)

\* C14: a sample_batch or sample_starts step, of the online or of the
\* offline buffer, returning or raising, leaves top, size and the six
\* storage arrays as they were; a step that changes any of them is an
\* add_paths, a clear_buffer or the add_paths of the offline constructor.
C14_SamplingReadOnly ==
    [][/\ call'.op \in {"sample_batch", "sample_starts"} => UNCHANGED Storage
       /\ ~(UNCHANGED Storage) =>
              \/ call'.op \in {"add_paths", "clear_buffer"}
              \/ offline /\ pc = "init" /\ call'.op = "init"]_vars

\* sample_batch(2) has returned two windows of an offline buffer
C14_Witness ==
    /\ offline
    /\ call.op = "sample_batch"
    /\ call.n = 2
    /\ ret.kind = "batch"
    /\ size > 1
    /\ ret.val[1] # ret.val[2]

\* the add_paths calls that pass the episodes eps one at a time, in order
OneByOne(eps) == [i \in 1..Len(eps) |-> SingleMapping(eps[i])]

\* no call has been made since the buffer was last written or cleared; every
\* value of top, size and the arrays that is reached is reached in such a
\* state, because the other calls leave them alone
AtRest == call.op \in {"init", "add_paths", "clear_buffer"}

\* C15: from any buffer state, add_paths with a batch of episodes e1..en
\* leaves top, size and the six arrays as n add_paths calls with the single
\* episodes e1, ..., en in that order leave them; with n = 1, a single
\* episode is handled as a batch of one.  Every add_paths step, with one
\* episode or with a batch, ends in the state that both the batch of its
\* episodes and the single calls give from the state it started in.
C15_BatchNormalisation ==
    [][(AtRest /\ call'.op = "add_paths")
         => \A eps \in {call'.paths} : \A after \in {StorageOf(Buffer)'} :
                /\ after = StorageOf(AddPaths(Buffer, BatchMapping(eps)))
                /\ after = StorageOf(Replay(Buffer, OneByOne(eps), 1))]_vars

\* a batch of two episodes of different true lengths has been added to a
\* buffer that has wrapped
C15_Witness ==
    /\ AddPathsCalled
    /\ caller.passed.ndim = 3
    /\ Len(call.paths) = 2
    /\ TrueLength(call.paths[1]) # TrueLength(call.paths[2])
    /\ nwritten > max_size
    /\ Len(log) = 3

\* the number of windows of an episode of T transitions
WindowsOf(T) == Max(T - Lookback + 1, 1)

\* the windows of the first n of the paths
RECURSIVE SumWindows(_, _)
SumWindows(paths, n) ==
    IF n = 0 THEN 0
    ELSE SumWindows(paths, n - 1) + WindowsOf(Len(paths[n].actions))

\* the paths of the dataset that the constructor has handed to add_paths
PathsAdded == Len(trajs) - Len(pending)

\* the offline constructor is running or has just returned
UnderConstruction == offline /\ call.op = "init"

\* C16: offline construction never evicts.  The capacity is the number of
\* transitions of the dataset, every episode has T >= 1 transitions and
\* yields max(T - L + 1, 1) <= T windows, so while the constructor runs and
\* when it has returned every window written is still in the slot it was
\* written to, none overwritten by a later one; size is the sum of
\* max(T_i - L + 1, 1) over the episodes added, all of them after
\* construction, and size <= capacity.
C16_OfflineNeverEvicts ==
    UnderConstruction =>
        /\ max_size = Len(dataset.actions)
        /\ \A i \in 1..Len(trajs) :
               /\ Len(trajs[i].actions) >= 1
               /\ WindowsOf(Len(trajs[i].actions)) <= Len(trajs[i].actions)
        /\ nwritten = SumWindows(trajs, PathsAdded)
        /\ size = nwritten
        /\ size <= max_size
        /\ top = size % max_size
        /\ \A k \in 1..nwritten :
               slot_src[k - 1].ord = k /\ HoldsItsWindow(k - 1)
        /\ pc = "ready" => PathsAdded = Len(trajs)

\* a dataset of two episodes, one longer than Lookback and one shorter, has
\* been loaded: three windows in a buffer of capacity four
C16_Witness ==
    /\ Constructed
    /\ Len(trajs) = 2
    /\ Len(trajs[1].actions) > Lookback
    /\ Len(trajs[2].actions) < Lookback
    /\ size = 3
    /\ max_size = 4
    /\ slot_src[0].ord = 1

\* what a logged write put into its slot: the path and start offset it came
\* from, the valid timesteps of the five data arrays, and the mask
WrittenPart(e) ==
    [pidx |-> e.pidx, strt |-> e.strt, valid |-> e.valid,
     observations |-> SubSeq(e.window.observations, 1, e.valid),
     next_observations |-> SubSeq(e.window.next_observations, 1, e.valid),
     terminals |-> SubSeq(e.window.terminals, 1, e.valid),
     actions |-> SubSeq(e.window.actions, 2, e.valid + 1),
     rewards |-> SubSeq(e.window.rewards, 2, e.valid + 1),
     masks |-> e.window.masks]

\* the sequence of windows the last add_paths call wrote
WindowsWritten == [j \in 1..Len(log) |-> WrittenPart(log[j])]

\* C17, first half: when add_paths has been called, the mapping the caller
\* holds is the mapping that was passed: same keys, same arrays, its
\* observations of length T+1.
C17_MappingKept == AddPathsCalled => caller.holds = caller.passed

\* C17, second half: a call of add_paths with the mapping object of the call
\* before it returns as that call did and writes the same sequence of
\* windows.
C17_SameWindowsAgain ==
    (/\ AddPathsCalled
     /\ call'.op = "add_paths"
     /\ caller'.passed.ndim = caller.holds.ndim
     /\ caller'.passed = caller.holds)
        => /\ ret'.kind = ret.kind
           /\ WindowsWritten' = WindowsWritten

\* C17: add_paths leaves the caller's input mapping unchanged (same keys,
\* same observation sequence of length T+1), for a single episode and for a
\* batch alike, so calling add_paths twice with the same mapping writes the
\* same sequence of windows both times.
C17_CallerMappingUnchanged ==
    /\ [](C17_MappingKept)
    /\ [][C17_SameWindowsAgain]_vars
====
